---- MODULE Spec2Model ----
(***************************************************************************)
(* Attributes of sgrif/syn (src/attr.rs): the attribute parsers            *)
(* parse_outer / parse_inner, the doc-comment desugaring lit_doc_comment,  *)
(* the structured view interpret_meta with its nested-list grammar, and    *)
(* the printer to_tokens.  Spans (positions) are not modelled: every claim *)
(* checked here ignores them.                                              *)
(***************************************************************************)
EXTENDS Integers, Sequences, FiniteSets, TLC

(***************************************************************************)
(* Bounds of the model.                                                    *)
(***************************************************************************)
\* Largest number of tokens enumerated inside a parenthesized attribute body.
MaxLen == 3
\* Largest number of characters enumerated after a doc-comment prefix.
MaxText == 2

RECURSIVE SeqUpTo(_, _)
\* All sequences over S of length at most n.
SeqUpTo(S, n) ==
    IF n = 0 THEN {<<>>}
    ELSE LET shorter == SeqUpTo(S, n - 1)
         IN  shorter \cup {Append(s, x) : s \in {t \in shorter : Len(t) = n - 1}, x \in S}

(***************************************************************************)
(* proc_macro2 tokens: TokenTree { span, kind: TokenNode }.  A literal's   *)
(* text is a sequence of characters, so that prefixes and escapes are      *)
(* computed on it.                                                         *)
(***************************************************************************)
Term(sym) ==
    [kind |-> "Term", text |-> <<sym>>, spacing |-> "-", delim |-> "-", inner |-> <<>>]
Literal(text) ==
    [kind |-> "Literal", text |-> text, spacing |-> "-", delim |-> "-", inner |-> <<>>]
Op(ch, spacing) ==
    [kind |-> "Op", text |-> <<ch>>, spacing |-> spacing, delim |-> "-", inner |-> <<>>]
Group(delim, inner) ==
    [kind |-> "Group", text |-> <<>>, spacing |-> "-", delim |-> delim, inner |-> inner]

IsOp(tt, ch, spacing) == tt.kind = "Op" /\ tt.text = <<ch>> /\ tt.spacing = spacing
IsParenGroup(tt) == tt.kind = "Group" /\ tt.delim = "Parenthesis"

StartsWith(string, prefix) ==
    /\ Len(string) >= Len(prefix)
    /\ SubSeq(string, 1, Len(prefix)) = prefix

(***************************************************************************)
(* Literals.  Literal::string quotes and escapes its argument with         *)
(* char::escape_default; Literal::doccomment keeps it as it is; Lit::new   *)
(* picks the literal's variant from the first character of its text;       *)
(* LitStr::value removes the quotes and undoes the escapes.                *)
(***************************************************************************)
escape_default(c) ==
    CASE c = "\"" -> <<"\\", "\"">>
      [] c = "\\" -> <<"\\", "\\">>
      [] c = "\n" -> <<"\\", "n">>
      [] OTHER    -> <<c>>

RECURSIVE EscapeAll(_)
EscapeAll(t) == IF t = <<>> THEN <<>> ELSE escape_default(Head(t)) \o EscapeAll(Tail(t))

LiteralString(t) == Literal(<<"\"">> \o EscapeAll(t) \o <<"\"">>)
LiteralDoccomment(s) == Literal(s)

LitNew(token) ==
    LET value == token.text
        kind  == IF value = <<>> THEN "Verbatim"
                 ELSE IF Head(value) \in {"\"", "r"} THEN "Str"
                 ELSE IF Head(value) \in {"0", "1", "2", "3", "4", "5", "6", "7", "8", "9"}
                      THEN "Int"
                 ELSE IF value \in {<<"true">>, <<"false">>} THEN "Bool"
                 ELSE "Verbatim"
    IN  [kind |-> kind, token |-> value]

RECURSIVE UnescapeAll(_)
UnescapeAll(s) ==
    IF s = <<>> THEN <<>>
    ELSE IF Head(s) = "\\" /\ Len(s) >= 2
         THEN LET c == s[2]
                  d == IF c = "n" THEN "\n" ELSE c
              IN  <<d>> \o UnescapeAll(SubSeq(s, 3, Len(s)))
         ELSE <<Head(s)>> \o UnescapeAll(Tail(s))

\* LitStr::value on a cooked string literal "...".
LitStrValue(lit) ==
    IF Len(lit.token) >= 2 THEN UnescapeAll(SubSeq(lit.token, 2, Len(lit.token) - 1))
    ELSE <<>>

(***************************************************************************)
(* Meta and NestedMeta.  NestedMeta::Meta(m) is written as m itself and    *)
(* NestedMeta::Literal(l) as a record of kind "Literal".                   *)
(***************************************************************************)
NoLit == [kind |-> "-", token |-> <<>>]
MetaWord(ident) == [kind |-> "Word", ident |-> ident, lit |-> NoLit, nested |-> <<>>]
MetaList(ident, nested) == [kind |-> "List", ident |-> ident, lit |-> NoLit, nested |-> nested]
MetaNameValue(ident, lit) == [kind |-> "NameValue", ident |-> ident, lit |-> lit, nested |-> <<>>]
NestedMetaLiteral(lit) == [kind |-> "Literal", ident |-> "-", lit |-> lit, nested |-> <<>>]
NoMeta == [kind |-> "-", ident |-> "-", lit |-> NoLit, nested |-> <<>>]

(***************************************************************************)
(* Punctuated<T, P> is a Vec<(T, Option<P>)>.  push_value asserts          *)
(* empty_or_trailing(); push_punct asserts that there is a last value and  *)
(* that it has no punctuation yet.                                         *)
(***************************************************************************)
PunctuatedNew == <<>>
empty_or_trailing(p) == p = <<>> \/ p[Len(p)].punct
push_value_ok(p) == empty_or_trailing(p)
push_value(p, value) == Append(p, [value |-> value, punct |-> FALSE])
push_punct_ok(p) == p # <<>> /\ ~p[Len(p)].punct
push_punct(p) == [p EXCEPT ![Len(p)].punct = TRUE]

(***************************************************************************)
(* The nested-list grammar.                                                *)
(***************************************************************************)
RECURSIVE nested_meta_item_from_tokens(_)
RECURSIVE list_of_nested_meta_items_from_tokens(_)
RECURSIVE ListLoop(_)

\* Option<(NestedMeta, &[TokenTree])>, or the panic of a failed assert!.
SomeItem(nested, rest) == [status |-> "Some", nested |-> nested, rest |-> rest]
NoItem == [status |-> "None", nested |-> NoMeta, rest |-> <<>>]
ItemPanic == [status |-> "Panic", nested |-> NoMeta, rest |-> <<>>]

\* The locals of list_of_nested_meta_items_from_tokens at the head of its
\* while loop.  calls records the push_value / push_punct calls made so far;
\* at and item record the last call of nested_meta_item_from_tokens (its
\* argument and its result).
ListStart(tts) ==
    [tts |-> tts, first |-> TRUE, nested_meta_items |-> PunctuatedNew,
     calls |-> <<>>, at |-> <<>>, item |-> NoItem, status |-> "Running"]

\* Lines 213-221: parse one element at tts, then push the comma and the element.
ListBody(st, tts, prev_comma) ==
    LET item == nested_meta_item_from_tokens(tts)
        s0 == [st EXCEPT !.tts = tts, !.first = FALSE, !.at = tts, !.item = item]
    IN  IF item.status = "Panic" THEN [s0 EXCEPT !.status = "Panic"]
        ELSE IF item.status = "None" THEN [s0 EXCEPT !.status = "None"]
        ELSE LET p0 == st.nested_meta_items
                 okP == ~prev_comma \/ push_punct_ok(p0)
                 p1 == IF prev_comma /\ okP THEN push_punct(p0) ELSE p0
                 okV == push_value_ok(p1)
                 c1 == IF prev_comma THEN Append(st.calls, "push_punct") ELSE st.calls
             IN  IF ~okP THEN [s0 EXCEPT !.calls = c1, !.status = "Panic"]
                 ELSE IF ~okV
                      THEN [s0 EXCEPT !.nested_meta_items = p1,
                                      !.calls = Append(c1, "push_value"), !.status = "Panic"]
                 ELSE [s0 EXCEPT !.tts = item.rest,
                                 !.nested_meta_items = push_value(p1, item.nested),
                                 !.calls = Append(c1, "push_value")]

\* ListStep without the `if tts.is_empty() { break; }` of lines 206-208.
ListStep_NoBreak(st) ==
    IF st.tts = <<>> THEN [st EXCEPT !.status = "Some"]
    ELSE IF st.first THEN ListBody(st, st.tts, FALSE)
    ELSE IF IsOp(st.tts[1], ",", "Alone") THEN ListBody(st, Tail(st.tts), TRUE)
    ELSE [st EXCEPT !.status = "None"]

\* ListStep leaving the loop, instead of returning None, at a token that is
\* not the comma it needs.
ListStep_BreakOnBadSeparator(st) ==
    IF st.tts = <<>> THEN [st EXCEPT !.status = "Some"]
    ELSE IF st.first THEN ListBody(st, st.tts, FALSE)
    ELSE IF IsOp(st.tts[1], ",", "Alone")
         THEN LET rest == Tail(st.tts)
              IN  IF rest = <<>> THEN [st EXCEPT !.tts = rest, !.status = "Some"]
                  ELSE ListBody(st, rest, TRUE)
    ELSE [st EXCEPT !.status = "Some"]

\* ListStep pushing the comma when it reads it, not when the next element
\* has been parsed.
ListStep_PunctAtComma(st) ==
    IF st.tts = <<>> THEN [st EXCEPT !.status = "Some"]
    ELSE IF st.first THEN ListBody(st, st.tts, FALSE)
    ELSE IF IsOp(st.tts[1], ",", "Alone")
         THEN LET rest == Tail(st.tts)
                  st1 == [st EXCEPT !.nested_meta_items = push_punct(@),
                                    !.calls = Append(@, "push_punct")]
              IN  IF rest = <<>> THEN [st1 EXCEPT !.tts = rest, !.status = "Some"]
                  ELSE ListBody(st1, rest, FALSE)
    ELSE [st EXCEPT !.status = "None"]

\* One pass of the while loop of lines 199-222 (its test included); leaving
\* the loop, by the test or by break, returns Some at line 224.
ListStep(st) ==
    IF st.tts = <<>> THEN [st EXCEPT !.status = "Some"]
    ELSE IF st.first THEN ListBody(st, st.tts, FALSE)
    ELSE IF IsOp(st.tts[1], ",", "Alone")
         THEN LET rest == Tail(st.tts)
              IN  IF rest = <<>> THEN [st EXCEPT !.tts = rest, !.status = "Some"]
                  ELSE ListBody(st, rest, TRUE)
    ELSE [st EXCEPT !.status = "None"]

ListLoop(st) == IF st.status # "Running" THEN st ELSE ListLoop(ListStep(st))

list_of_nested_meta_items_from_tokens(tts) == ListLoop(ListStart(tts))

\* nested_meta_item_from_tokens falling back to a bare Word when the group
\* after the identifier is not a list.
nested_meta_item_from_tokens_WordFallback(tts) ==
    IF tts = <<>> THEN ItemPanic
    ELSE IF tts[1].kind = "Literal"
         THEN SomeItem(NestedMetaLiteral(LitNew(tts[1])), Tail(tts))
    ELSE IF tts[1].kind = "Term"
         THEN LET ident == tts[1].text[1]
                  r == IF Len(tts) >= 2 /\ IsParenGroup(tts[2])
                       THEN list_of_nested_meta_items_from_tokens(tts[2].inner)
                       ELSE ListStart(<<>>)
              IN  IF Len(tts) >= 3 /\ IsOp(tts[2], "=", "Alone") /\ tts[3].kind = "Literal"
                  THEN SomeItem(MetaNameValue(ident, LitNew(tts[3])), SubSeq(tts, 4, Len(tts)))
                  ELSE IF r.status = "Some"
                       THEN SomeItem(MetaList(ident, r.nested_meta_items),
                                     SubSeq(tts, 3, Len(tts)))
                  ELSE SomeItem(MetaWord(ident), Tail(tts))
    ELSE NoItem

nested_meta_item_from_tokens(tts) ==
    IF tts = <<>> THEN ItemPanic
    ELSE IF tts[1].kind = "Literal"
         THEN SomeItem(NestedMetaLiteral(LitNew(tts[1])), Tail(tts))
    ELSE IF tts[1].kind = "Term"
         THEN LET ident == tts[1].text[1]
              IN  IF Len(tts) >= 3 /\ IsOp(tts[2], "=", "Alone") /\ tts[3].kind = "Literal"
                  THEN SomeItem(MetaNameValue(ident, LitNew(tts[3])), SubSeq(tts, 4, Len(tts)))
                  ELSE IF Len(tts) >= 2 /\ IsParenGroup(tts[2])
                       THEN LET r == list_of_nested_meta_items_from_tokens(tts[2].inner)
                            IN  IF r.status = "Some"
                                THEN SomeItem(MetaList(ident, r.nested_meta_items),
                                              SubSeq(tts, 3, Len(tts)))
                                ELSE IF r.status = "Panic" THEN ItemPanic
                                ELSE NoItem
                  ELSE SomeItem(MetaWord(ident), Tail(tts))
    ELSE NoItem

(***************************************************************************)
(* Attribute { style, path, tts, is_sugared_doc } and Path.                *)
(***************************************************************************)
Path(leading_colon, segments) == [leading_colon |-> leading_colon, segments |-> segments]
PathFromIdent(ident) == Path(FALSE, <<ident>>)
Attribute(style, path, tts, is_sugared_doc) ==
    [style |-> style, path |-> path, tts |-> tts, is_sugared_doc |-> is_sugared_doc]
NoAttribute == Attribute("-", Path(FALSE, <<>>), <<>>, FALSE)

\* Option<Meta>, or the panic of a failed assert!.
SomeMeta(meta) == [status |-> "Some", meta |-> meta]
NoneMeta == [status |-> "None", meta |-> NoMeta]
MetaPanic == [status |-> "Panic", meta |-> NoMeta]

\* Lines 128-140: the name-value shape, or None.
InterpretNameValue(attr) ==
    LET tts == attr.tts
        name == attr.path.segments[1]
    IN  IF Len(tts) = 2 /\ IsOp(tts[1], "=", "Alone") /\ tts[2].kind = "Literal"
        THEN SomeMeta(MetaNameValue(name, LitNew(tts[2])))
        ELSE NoneMeta

\* Lines 118-140, given what list_of_nested_meta_items_from_tokens returned.
InterpretAfterList(attr, r) ==
    IF r.status = "Some" THEN SomeMeta(MetaList(attr.path.segments[1], r.nested_meta_items))
    ELSE IF r.status = "Panic" THEN MetaPanic
    ELSE InterpretNameValue(attr)

\* Line 115-116: the body is one parenthesized group.
IsListBody(tts) == Len(tts) = 1 /\ IsParenGroup(tts[1])

interpret_meta(attr) ==
    IF Len(attr.path.segments) # 1 THEN NoneMeta
    ELSE IF attr.tts = <<>> THEN SomeMeta(MetaWord(attr.path.segments[1]))
    ELSE IF IsListBody(attr.tts)
         THEN InterpretAfterList(attr, list_of_nested_meta_items_from_tokens(attr.tts[1].inner))
    ELSE InterpretNameValue(attr)

(***************************************************************************)
(* Parsing.  Path::parse_mod_style reads an optional leading `::`, one     *)
(* identifier, and then `::` identifier as often as both are there; the    *)
(* punctuation `::` is a Joint `:` followed by a `:`.                      *)
(***************************************************************************)
IsColon2(tts) ==
    /\ Len(tts) >= 2
    /\ IsOp(tts[1], ":", "Joint")
    /\ tts[2].kind = "Op" /\ tts[2].text = <<":">>

RECURSIVE PathSegments(_, _)
\* After a first segment: the remaining `::` segment pairs, and what is left.
PathSegments(segments, tts) ==
    IF IsColon2(tts) /\ Len(tts) >= 3 /\ tts[3].kind = "Term"
    THEN PathSegments(Append(segments, tts[3].text[1]), SubSeq(tts, 4, Len(tts)))
    ELSE [segments |-> segments, rest |-> tts]

parse_mod_style(tts) ==
    LET colon == IsColon2(tts)
        t1    == IF colon THEN SubSeq(tts, 3, Len(tts)) ELSE tts
    IN  IF t1 # <<>> /\ t1[1].kind = "Term"
        THEN LET r == PathSegments(<<t1[1].text[1]>>, Tail(t1))
             IN  [status |-> "Ok", path |-> Path(colon, r.segments), rest |-> r.rest]
        ELSE [status |-> "Err", path |-> Path(FALSE, <<>>), rest |-> <<>>]

ParseOk(attr, rest) == [status |-> "Ok", attr |-> attr, rest |-> rest]
ParseError == [status |-> "Err", attr |-> NoAttribute, rest |-> <<>>]

\* parsing::eq
eq == Op("=", "Alone")

\* lit_doc_comment keeping only the text after the three-character prefix.
lit_doc_comment_StripPrefix(input, style) ==
    IF input # <<>> /\ input[1].kind = "Literal"
    THEN LET string == input[1].text
             ok == IF style = "Inner"
                   THEN StartsWith(string, <<"/", "/", "!">>) \/ StartsWith(string, <<"/", "*", "!">>)
                   ELSE StartsWith(string, <<"/", "/", "/">>) \/ StartsWith(string, <<"/", "*", "*">>)
         IN  IF ok THEN [status |-> "Ok", lit |-> LiteralString(SubSeq(string, 4, Len(string))),
                         rest |-> Tail(input)]
             ELSE [status |-> "Err", lit |-> Literal(<<>>), rest |-> <<>>]
    ELSE [status |-> "Err", lit |-> Literal(<<>>), rest |-> <<>>]

\* lit_doc_comment: Ok(the literal token, rest) or parse_error().
lit_doc_comment(input, style) ==
    IF input # <<>> /\ input[1].kind = "Literal"
    THEN LET string == input[1].text
             ok == IF style = "Inner"
                   THEN StartsWith(string, <<"/", "/", "!">>) \/ StartsWith(string, <<"/", "*", "!">>)
                   ELSE StartsWith(string, <<"/", "/", "/">>) \/ StartsWith(string, <<"/", "*", "*">>)
         IN  IF ok THEN [status |-> "Ok", lit |-> LiteralString(string), rest |-> Tail(input)]
             ELSE [status |-> "Err", lit |-> Literal(<<>>), rest |-> <<>>]
    ELSE [status |-> "Err", lit |-> Literal(<<>>), rest |-> <<>>]

\* BracketAttribute marking a written-out #[doc = "..."] as sugared.
BracketAttribute_SugarDoc(style, path, tts) ==
    Attribute(style, path, tts,
              path.segments = <<"doc">> /\ Len(tts) = 2 /\ tts[1] = eq /\ tts[2].kind = "Literal")

\* The Attribute built by the bracketed alternative of parse_inner / parse_outer.
BracketAttribute(style, path, tts) == Attribute(style, path, tts, FALSE)

\* The Attribute built by the doc-comment alternative.
DocAttribute(style, lit) == Attribute(style, PathFromIdent("doc"), <<eq, lit>>, TRUE)

\* brackets!(tuple!(call!(Path::parse_mod_style), syn!(TokenStream)))
ParseBracketed(style, input) ==
    IF input # <<>> /\ input[1].kind = "Group" /\ input[1].delim = "Bracket"
    THEN LET p == parse_mod_style(input[1].inner)
         IN  IF p.status = "Ok"
             THEN ParseOk(BracketAttribute(style, p.path, p.rest), Tail(input))
             ELSE ParseError
    ELSE ParseError

ParseDoc(style, input) ==
    LET d == lit_doc_comment(input, style)
    IN  IF d.status = "Ok" THEN ParseOk(DocAttribute(style, d.lit), d.rest) ELSE ParseError

IsPunct(tts, ch) == tts # <<>> /\ tts[1].kind = "Op" /\ tts[1].text = <<ch>>

parse_outer(input) ==
    LET first == IF IsPunct(input, "#") THEN ParseBracketed("Outer", Tail(input))
                 ELSE ParseError
    IN  IF first.status = "Ok" THEN first ELSE ParseDoc("Outer", input)

parse_inner(input) ==
    LET first == IF IsPunct(input, "#") /\ IsPunct(Tail(input), "!")
                 THEN ParseBracketed("Inner", Tail(Tail(input)))
                 ELSE ParseError
    IN  IF first.status = "Ok" THEN first ELSE ParseDoc("Inner", input)

(***************************************************************************)
(* Printing.                                                               *)
(***************************************************************************)
Colon2Tokens == <<Op(":", "Joint"), Op(":", "Alone")>>

RECURSIVE SegmentTokens(_)
SegmentTokens(segments) ==
    IF segments = <<>> THEN <<>>
    ELSE IF Len(segments) = 1 THEN <<Term(segments[1])>>
    ELSE <<Term(segments[1])>> \o Colon2Tokens \o SegmentTokens(Tail(segments))

\* self.path.to_tokens(tokens)
PathToTokens(path) ==
    (IF path.leading_colon THEN Colon2Tokens ELSE <<>>) \o SegmentTokens(path.segments)

\* Lines 513-520: `#`, `!` for an inner attribute, and the bracket group.
BracketedTokens(attr) ==
    <<Op("#", "Alone")>>
    \o (IF attr.style = "Inner" THEN <<Op("!", "Alone")>> ELSE <<>>)
    \o <<Group("Bracket", PathToTokens(attr.path) \o attr.tts)>>

\* to_tokens not looking at is_sugared_doc.
to_tokens_IgnoreSugarFlag(attr) ==
    LET m == interpret_meta(attr)
    IN  IF /\ m.status = "Some" /\ m.meta.kind = "NameValue"
           /\ m.meta.ident = "doc"
           /\ m.meta.lit.kind = "Str"
        THEN <<LiteralDoccomment(LitStrValue(m.meta.lit))>>
        ELSE BracketedTokens(attr)

\* to_tokens emitting the string literal's own text, not its value.
to_tokens_LiteralText(attr) ==
    LET m == interpret_meta(attr)
    IN  IF /\ attr.is_sugared_doc
           /\ m.status = "Some" /\ m.meta.kind = "NameValue"
           /\ m.meta.ident = "doc"
           /\ m.meta.lit.kind = "Str"
        THEN <<LiteralDoccomment(m.meta.lit.token)>>
        ELSE BracketedTokens(attr)

\* to_tokens always writing the bracketed form.
to_tokens_NeverSugar(attr) == BracketedTokens(attr)

to_tokens(attr) ==
    LET m == interpret_meta(attr)
    IN  IF /\ attr.is_sugared_doc
           /\ m.status = "Some" /\ m.meta.kind = "NameValue"
           /\ m.meta.ident = "doc"
           /\ m.meta.lit.kind = "Str"
        THEN <<LiteralDoccomment(LitStrValue(m.meta.lit))>>
        ELSE BracketedTokens(attr)

(***************************************************************************)
(* The inputs.                                                             *)
(***************************************************************************)
StrLit == Literal(<<"\"", "l", "i", "t", "\"">>)
IntLit == Literal(<<"1">>)
Comma == Op(",", "Alone")
Paren(inner) == Group("Parenthesis", inner)

\* The tokens enumerated inside a parenthesized body: words, literals,
\* separators of both spacings, and groups that are well-formed lists,
\* malformed lists (one and two levels down) and not lists at all.
Alphabet ==
    { Term("bar"), StrLit, IntLit,
      eq, Op("=", "Joint"), Comma, Op(",", "Joint"),
      Paren(<<>>),
      Paren(<<Term("qux")>>),
      Paren(<<Term("qux"), Comma>>),
      Paren(<<Term("bar"), Term("baz")>>),
      Paren(<<Term("bar"), Paren(<<Term("bar"), StrLit>>)>>),
      Group("Bracket", <<Term("qux")>>) }

Interiors == SeqUpTo(Alphabet, MaxLen)

\* foo(bar = 1, baz(qux), "lit",)
ExampleTrailingComma ==
    Attribute("Outer", PathFromIdent("foo"),
              <<Paren(<<Term("bar"), eq, IntLit, Comma,
                        Term("baz"), Paren(<<Term("qux")>>), Comma,
                        StrLit, Comma>>)>>,
              FALSE)

\* foo(bar baz)
ExampleMissingComma ==
    Attribute("Outer", PathFromIdent("foo"), <<Paren(<<Term("bar"), Term("baz")>>)>>, FALSE)

Chars == {"h", "\"", "\\", "\n"}
LineDocPrefixes == {<<"/", "/", "/">>, <<"/", "/", "!">>}
BlockDocPrefixes == {<<"/", "*", "*">>, <<"/", "*", "!">>}
DocTails == SeqUpTo(Chars, MaxText)
\* The comments the lexer hands over as one literal token each.
DocTexts ==
    {p \o t : p \in LineDocPrefixes, t \in {u \in DocTails : \A i \in 1..Len(u) : u[i] # "\n"}}
    \cup {p \o t \o <<"*", "/">> : p \in BlockDocPrefixes, t \in DocTails}

\* /// hello
ExampleDocHello == <<"/", "/", "/", " ", "h", "e", "l", "l", "o">>

Paths == {PathFromIdent("doc"), PathFromIdent("foo"), Path(FALSE, <<"foo", "bar">>),
          Path(TRUE, <<"foo">>)}

\* Attribute bodies other than one parenthesized list.
SmallBodies ==
    SeqUpTo({Term("bar"), StrLit, IntLit, eq, Op("=", "Joint"),
             Op(":", "Joint"), Op(":", "Alone"), Paren(<<Term("bar")>>)}, 2)
    \cup {<<eq, StrLit, StrLit>>, <<eq, LiteralString(<<"/", "/", "/", "h">>)>>,
          <<Group("Bracket", <<Term("bar")>>)>>}

\* Token streams handed to parse_outer and parse_inner.
ParseInputs ==
    {<<Literal(t)>> : t \in DocTexts \cup {ExampleDocHello}}
    \cup {<<StrLit>>, <<IntLit>>, <<Term("doc")>>, <<Op("#", "Alone")>>, <<>>}
    \cup {bang \o <<Group("Bracket", pre \o b)>> :
            bang \in {<<Op("#", "Alone")>>, <<Op("#", "Alone"), Op("!", "Alone")>>},
            pre \in {PathToTokens(p) : p \in Paths} \cup {<<>>},
            b \in SmallBodies}

\* Attributes built by a caller (every field of Attribute is public).
BuiltAttributes ==
    {Attribute("Outer", PathFromIdent("foo"), <<Paren(i)>>, FALSE) : i \in Interiors}
    \cup {ExampleTrailingComma, ExampleMissingComma}
    \cup {Attribute(style, p, b, sugared) :
            style \in {"Outer", "Inner"}, p \in Paths, b \in SmallBodies,
            sugared \in BOOLEAN}

(***************************************************************************)
(* The state: one attribute at a time is parsed or built, then interpreted *)
(* or printed, and what was printed is parsed again.                       *)
(***************************************************************************)
VARIABLES
    pc,         \* "idle", "error", "parsed", "list", "interpreted", "printed", "reparsed"
    entry,      \* "outer" / "inner": the parser that made attr; "built" otherwise
    input,      \* the token stream that was parsed
    attr,       \* the Attribute at hand
    loop,       \* the locals of the running list_of_nested_meta_items_from_tokens
    meta,       \* what interpret_meta returned
    printed,    \* what to_tokens appended
    reparsed    \* what parsing printed returned

vars == <<pc, entry, input, attr, loop, meta, printed, reparsed>>

Init ==
    /\ pc = "idle"
    /\ entry = "-"
    /\ input = <<>>
    /\ attr = NoAttribute
    /\ loop = ListStart(<<>>)
    /\ meta = NoneMeta
    /\ printed = <<>>
    /\ reparsed = ParseError

Parse(which, tokens) == IF which = "inner" THEN parse_inner(tokens) ELSE parse_outer(tokens)

ParseOuter ==
    /\ pc = "idle"
    /\ \E tokens \in ParseInputs :
         LET r == parse_outer(tokens)
         IN  /\ input' = tokens
             /\ entry' = "outer"
             /\ attr' = r.attr
             /\ pc' = IF r.status = "Ok" THEN "parsed" ELSE "error"
    /\ UNCHANGED <<loop, meta, printed, reparsed>>

ParseInner ==
    /\ pc = "idle"
    /\ \E tokens \in ParseInputs :
         LET r == parse_inner(tokens)
         IN  /\ input' = tokens
             /\ entry' = "inner"
             /\ attr' = r.attr
             /\ pc' = IF r.status = "Ok" THEN "parsed" ELSE "error"
    /\ UNCHANGED <<loop, meta, printed, reparsed>>

Build ==
    /\ pc = "idle"
    /\ \E a \in BuiltAttributes :
         /\ attr' = a
         /\ entry' = "built"
         /\ pc' = "parsed"
    /\ UNCHANGED <<input, loop, meta, printed, reparsed>>

\* interpret_meta up to its call of list_of_nested_meta_items_from_tokens
\* (lines 103-118), or to its return when it makes no such call.
InterpretMeta ==
    /\ pc = "parsed"
    /\ IF Len(attr.path.segments) = 1 /\ attr.tts # <<>> /\ IsListBody(attr.tts)
       THEN /\ loop' = ListStart(attr.tts[1].inner)
            /\ pc' = "list"
            /\ UNCHANGED meta
       ELSE /\ meta' = interpret_meta(attr)
            /\ pc' = "interpreted"
            /\ UNCHANGED loop
    /\ UNCHANGED <<entry, input, attr, printed, reparsed>>

\* One pass of the while loop; when the list function returns, interpret_meta
\* runs to its own return (lines 118-140).
ListIteration ==
    /\ pc = "list"
    /\ loop' = ListStep(loop)
    /\ IF loop'.status = "Running"
       THEN UNCHANGED <<pc, meta>>
       ELSE /\ meta' = InterpretAfterList(attr, loop')
            /\ pc' = "interpreted"
    /\ UNCHANGED <<entry, input, attr, printed, reparsed>>

ToTokens ==
    /\ pc = "parsed"
    /\ printed' = to_tokens(attr)
    /\ pc' = "printed"
    /\ UNCHANGED <<entry, input, attr, loop, meta, reparsed>>

Reparse ==
    /\ pc = "printed"
    /\ entry \in {"outer", "inner"}
    /\ reparsed' = Parse(entry, printed)
    /\ pc' = "reparsed"
    /\ UNCHANGED <<entry, input, attr, loop, meta, printed>>

Return ==
    /\ pc \in {"error", "interpreted", "printed", "reparsed"}
    /\ pc' = "idle"
    /\ entry' = "-"
    /\ input' = <<>>
    /\ attr' = NoAttribute
    /\ loop' = ListStart(<<>>)
    /\ meta' = NoneMeta
    /\ printed' = <<>>
    /\ reparsed' = ParseError

Next ==
    \/ ParseOuter
    \/ ParseInner
    \/ Build
    \/ InterpretMeta
    \/ ListIteration
    \/ ToTokens
    \/ Reparse
    \/ Return

Spec == Init /\ [][Next]_vars

(***************************************************************************)
(* Properties.                                                             *)
(***************************************************************************)
Parsed == entry \in {"outer", "inner"} /\ pc \in {"parsed", "list", "interpreted", "printed", "reparsed"}
FromDocComment == Parsed /\ Len(input) = 1 /\ input[1].kind = "Literal"
FromBrackets == Parsed /\ IsPunct(input, "#")

\* C1: an Attribute produced by parse_outer or parse_inner, printed with
\* to_tokens and parsed again with the same entry point, comes back with the
\* same style, path, body tokens and is_sugared_doc.
C1_RoundTrip ==
    pc = "reparsed" =>
        /\ reparsed.status = "Ok"
        /\ reparsed.rest = <<>>
        /\ reparsed.attr.style = attr.style
        /\ reparsed.attr.path = attr.path
        /\ reparsed.attr.tts = attr.tts
        /\ reparsed.attr.is_sugared_doc = attr.is_sugared_doc

\* A doc comment holding a quote and a backslash has gone round.
C1_Witness ==
    /\ pc = "reparsed"
    /\ FromDocComment
    /\ \E i \in 1..Len(input[1].text) : input[1].text[i] = "\""
    /\ \E i \in 1..Len(input[1].text) : input[1].text[i] = "\\"

\* C2: printing the Attribute parsed from a doc-comment literal s emits
\* exactly one literal token whose text is s, never the bracketed form.
C2_DocCommentVerbatim ==
    (FromDocComment /\ pc \in {"printed", "reparsed"}) =>
        /\ Len(printed) = 1
        /\ printed[1].kind = "Literal"
        /\ printed[1].text = input[1].text

\* An inner block comment holding a character that is escaped has been printed.
C2_Witness ==
    /\ FromDocComment
    /\ pc = "printed"
    /\ entry = "inner"
    /\ StartsWith(input[1].text, <<"/", "*", "!">>)
    /\ \E i \in 1..Len(input[1].text) : input[1].text[i] \in {"\"", "\\", "\n"}

\* C3: interpret_meta never panics: it returns Some or None, and no call of
\* nested_meta_item_from_tokens it reaches fails assert!(!tts.is_empty()).
C3_InterpretNeverPanics ==
    /\ loop.status # "Panic"
    /\ loop.item.status # "Panic"
    /\ meta.status # "Panic"
    /\ pc = "interpreted" => meta.status \in {"Some", "None"}
    /\ (pc \in {"list", "interpreted"} /\ loop.calls # <<>>) => loop.at # <<>>

\* A list whose last token is a comma has been interpreted, after at least
\* one element was pushed.
C3_Witness ==
    /\ pc = "interpreted"
    /\ IsListBody(attr.tts)
    /\ Len(attr.tts[1].inner) >= 2
    /\ attr.tts[1].inner[Len(attr.tts[1].inner)] = Comma
    /\ loop.calls # <<>>
    /\ loop.tts = <<>>

RECURSIVE MissingComma(_)
\* Somewhere in tts, at any depth: a word or literal right after a word,
\* literal or group; or a comma that is not Alone.
MissingComma(tts) ==
    \/ \E i \in 1..(Len(tts) - 1) :
          /\ tts[i].kind \in {"Term", "Literal", "Group"}
          /\ tts[i + 1].kind \in {"Term", "Literal"}
    \/ \E i \in 1..Len(tts) : IsOp(tts[i], ",", "Joint")
    \/ \E i \in 1..Len(tts) : tts[i].kind = "Group" /\ MissingComma(tts[i].inner)

\* C4: a one-segment Attribute whose body is one parenthesized group with a
\* missing comma at any depth is interpreted as None, never as a List of the
\* elements before that place.
C4_MissingCommaIsNone ==
    (/\ pc = "interpreted"
     /\ Len(attr.path.segments) = 1
     /\ IsListBody(attr.tts)
     /\ MissingComma(attr.tts[1].inner)) => meta.status = "None"

\* The comma is missing one level down, after a well-formed first element.
C4_Witness ==
    /\ pc = "interpreted"
    /\ IsListBody(attr.tts)
    /\ Len(attr.tts[1].inner) = 3
    /\ attr.tts[1].inner[1] = StrLit
    /\ attr.tts[1].inner[2] = Comma
    /\ attr.tts[1].inner[3] = Paren(<<Term("bar"), Term("baz")>>)

ExampleInterpreted == pc = "interpreted" /\ attr = ExampleTrailingComma

\* C5 as stated: foo(bar = 1, baz(qux), "lit",) is a List named foo with
\* four elements.
C5_FourElements ==
    ExampleInterpreted =>
        /\ meta.status = "Some"
        /\ meta.meta.kind = "List"
        /\ meta.meta.ident = "foo"
        /\ Len(meta.meta.nested) = 4

\* C5, amended: foo(bar = 1, baz(qux), "lit",) is a List named foo with the
\* three elements NameValue(bar, 1), List(baz, [Word(qux)]) and Literal("lit");
\* the trailing comma is accepted and asks for no further element.
C5_ThreeElements ==
    ExampleInterpreted =>
        /\ meta.status = "Some"
        /\ meta.meta.kind = "List"
        /\ meta.meta.ident = "foo"
        /\ Len(meta.meta.nested) = 3
        /\ meta.meta.nested[1].value = MetaNameValue("bar", [kind |-> "Int", token |-> <<"1">>])
        /\ meta.meta.nested[2].value.kind = "List"
        /\ meta.meta.nested[2].value.ident = "baz"
        /\ Len(meta.meta.nested[2].value.nested) = 1
        /\ meta.meta.nested[2].value.nested[1].value = MetaWord("qux")
        /\ meta.meta.nested[3].value.kind = "Literal"
        /\ meta.meta.nested[3].value.lit = [kind |-> "Str", token |-> StrLit.text]

C5_Witness == ExampleInterpreted /\ loop.tts = <<>> /\ loop.status = "Some"

ExampleDocParsed == pc = "parsed" /\ entry = "outer" /\ input = <<Literal(ExampleDocHello)>>

\* What parse_outer makes of a doc comment, apart from the string's value.
DocShape ==
    /\ attr.style = "Outer"
    /\ attr.path = PathFromIdent("doc")
    /\ attr.is_sugared_doc
    /\ Len(attr.tts) = 2
    /\ attr.tts[1] = Op("=", "Alone")
    /\ attr.tts[2].kind = "Literal"
    /\ LitNew(attr.tts[2]).kind = "Str"

\* C6 as stated: parse_outer of `/// hello` yields style Outer, path doc,
\* is_sugared_doc, and the body `=` and a string literal of value ` hello`.
C6_ValueWithoutPrefix ==
    ExampleDocParsed =>
        /\ DocShape
        /\ LitStrValue(LitNew(attr.tts[2])) = <<" ", "h", "e", "l", "l", "o">>

\* C6, amended: parse_outer of `/// hello` yields style Outer, path doc,
\* is_sugared_doc, and the body `=` and a string literal whose value is the
\* whole comment text `/// hello`, the prefix included.
C6_ValueIsWholeComment ==
    ExampleDocParsed =>
        /\ DocShape
        /\ LitStrValue(LitNew(attr.tts[2])) = ExampleDocHello

C6_Witness == ExampleDocParsed /\ attr.is_sugared_doc

\* interpret_meta yields NameValue with name doc and a string literal.
IsDocNameValue(a) ==
    LET m == interpret_meta(a)
    IN  /\ m.status = "Some"
        /\ m.meta.kind = "NameValue"
        /\ m.meta.ident = "doc"
        /\ m.meta.lit.kind = "Str"

\* C7: to_tokens emits one doc-comment literal exactly when is_sugared_doc
\* holds and interpret_meta yields NameValue(doc, string literal); in every
\* other case it emits `#`, `!` for an Inner attribute only, and one bracket
\* group holding the path tokens and then the body tokens unchanged.
C7_PrinterShape ==
    pc = "printed" =>
        IF attr.is_sugared_doc /\ IsDocNameValue(attr)
        THEN /\ Len(printed) = 1
             /\ printed[1].kind = "Literal"
        ELSE LET n == IF attr.style = "Inner" THEN 3 ELSE 2
                 pathLen == 3 * Len(attr.path.segments) - 2
                              + (IF attr.path.leading_colon THEN 2 ELSE 0)
             IN  /\ Len(printed) = n
                 /\ IsPunct(printed, "#")
                 /\ attr.style = "Inner" => IsPunct(Tail(printed), "!")
                 /\ printed[n].kind = "Group"
                 /\ printed[n].delim = "Bracket"
                 /\ Len(printed[n].inner) = pathLen + Len(attr.tts)
                 /\ SubSeq(printed[n].inner, 1, pathLen) = PathToTokens(attr.path)
                 /\ SubSeq(printed[n].inner, pathLen + 1, pathLen + Len(attr.tts)) = attr.tts

\* An unsugared doc = "..." attribute has been printed in brackets.
C7_Witness ==
    /\ pc = "printed"
    /\ ~attr.is_sugared_doc
    /\ IsDocNameValue(attr)
    /\ attr.style = "Inner"
    /\ Len(printed) = 3

\* C8: a parsed Attribute with is_sugared_doc has the one-segment path doc
\* and the body `=` (Alone) and one string literal; an Attribute parsed from
\* the bracketed form has is_sugared_doc = false, #[doc = "..."] included.
C8_SugarInvariant ==
    /\ (Parsed /\ attr.is_sugared_doc) =>
          /\ attr.path = PathFromIdent("doc")
          /\ Len(attr.tts) = 2
          /\ attr.tts[1] = Op("=", "Alone")
          /\ attr.tts[2].kind = "Literal"
          /\ LitNew(attr.tts[2]).kind = "Str"
    /\ FromBrackets => ~attr.is_sugared_doc

\* #[doc = "lit"] has been parsed.
C8_Witness ==
    /\ FromBrackets
    /\ pc = "parsed"
    /\ attr.path = PathFromIdent("doc")
    /\ attr.tts = <<eq, StrLit>>

\* The last element parse was at an identifier followed by a parenthesized
\* group whose interior is not a list.
AtFailingGroup ==
    /\ pc \in {"list", "interpreted"}
    /\ Len(loop.at) >= 2
    /\ loop.at[1].kind = "Term"
    /\ IsParenGroup(loop.at[2])
    /\ list_of_nested_meta_items_from_tokens(loop.at[2].inner).status = "None"

\* C9: at an identifier followed by a parenthesized group whose interior
\* fails the list grammar, nested_meta_item_from_tokens returns None, the
\* enclosing list parse returns None and so does interpret_meta; the
\* identifier does not become a Word.
C9_GroupFailurePropagates ==
    AtFailingGroup =>
        /\ loop.item.status = "None"
        /\ loop.status = "None"
        /\ pc = "interpreted"
        /\ meta.status = "None"

\* The interior fails one level further down: bar(bar(bar "lit")).
C9_Witness ==
    /\ AtFailingGroup
    /\ loop.at[2] = Paren(<<Term("bar"), Paren(<<Term("bar"), StrLit>>)>>)
    /\ pc = "interpreted"

RECURSIVE WellPunctuated(_)
\* Every value but the last is followed by a comma, the last by none; the
\* same in every nested List.
WellPunctuated(p) ==
    /\ \A i \in 1..Len(p) : p[i].punct <=> i < Len(p)
    /\ \A i \in 1..Len(p) : p[i].value.kind = "List" => WellPunctuated(p[i].value.nested)

Max(a, b) == IF a >= b THEN a ELSE b

\* C10: a successful list parse of n elements returns max(n-1, 0) commas and
\* no trailing comma, also when the input ended with a comma; push_punct is
\* called only right after a value, push_value only first or after a comma.
C10_PunctuationDiscipline ==
    pc \in {"list", "interpreted"} =>
        /\ \A i \in 1..Len(loop.calls) :
              IF loop.calls[i] = "push_punct"
              THEN i > 1 /\ loop.calls[i - 1] = "push_value"
              ELSE i = 1 \/ loop.calls[i - 1] = "push_punct"
        /\ loop.status = "Some" =>
              /\ WellPunctuated(loop.nested_meta_items)
              /\ Cardinality({i \in 1..Len(loop.nested_meta_items) :
                                loop.nested_meta_items[i].punct})
                   = Max(Len(loop.nested_meta_items) - 1, 0)

\* Several elements and a trailing comma have been parsed.
C10_Witness ==
    /\ pc = "interpreted"
    /\ loop.status = "Some"
    /\ Len(loop.nested_meta_items) >= 2
    /\ attr.tts[1].inner[Len(attr.tts[1].inner)] = Comma

====
